---------------------------- MODULE Spec2Model ----------------------------
(***************************************************************************)
(* A model of the standalone scripts of the repository:                    *)
(*   clickable_links.py                     (URL dispatch by exec)         *)
(*   headless/examples/abst_helpers.py      (get, post, run_sim, Results)  *)
(*   headless/examples/cancel_experiment.py (cancellation rounds)          *)
(*   headless/examples/python_client.py     (traffic-signal experiment)    *)
(*   headless/examples/cap_experiment.py    (road-cap rounds)              *)
(* Every script is sequential.  pc is the statement about to run; one      *)
(* action is one statement (or one HTTP request with the code that handles *)
(* its response).  The HTTP server is the environment: the status and the  *)
(* body of every response are chosen nondeterministically.                 *)
(*                                                                         *)
(* Python values: None is the empty tuple <<>> and a present value v of an *)
(* optional is <<v>>.  A str is a tuple of one-character strings.          *)
(***************************************************************************)
EXTENDS Integers, Sequences, FiniteSets

VARIABLES
    pc,         \* the statement about to run, or "done" / "raised" / "replaced"
    exc,        \* the exception that ended the script, "none" while it runs
    sent,       \* the HTTP requests sent so far (their paths), in order
    last_status,\* resp.status_code of the latest response, None before the first
    arg,        \* clickable_links: sys.argv[1]
    execd,      \* clickable_links: the os.execvp calls made, in order
    ret,        \* abst_helpers.run_sim: the statement of the caller to return to
    sim_edits,  \* abst_helpers.run_sim: its edits parameter
    returned,   \* abst_helpers.run_sim: the Results it returned, None before
    srv_edits,  \* server: the map edits in effect (set by /sim/load)
    cmp1, cmp2, \* cancel_experiment: args.cmp1 and args.cmp2
    pct,        \* cancel_experiment: the loop variable of main, None before the loop
    num_succeeded_last, \* cancel_experiment: local of main
    results,    \* cancel_experiment: local of main, None before the first round
    results2,   \* cancel_experiment: local of main
    faster,     \* compare / compare_results: local list, <<>> outside the call
    slower,     \* compare / compare_results: local list, <<>> outside the call
    out,        \* the lines the latest statement printed
    run1, run2, \* python_client: what the two run_experiment calls returned
    ts,         \* python_client: the traffic signal fetched, then modified
    raw,        \* python_client.run_experiment: the JSON bodies fetched so far
    srv_signal, \* server: the edited traffic signal in effect, None without edit
    cap_all_roads, rounds, cap_pct, \* cap_experiment: args
    round,      \* cap_experiment: the rounds of the loop of main begun so far
    edits,      \* cap_experiment: local of main
    baseline,   \* cap_experiment: local of main
    experiment, \* cap_experiment: local of main
    max_per_road, \* cap_experiment.cap_all_roads: local dict
    todo,       \* cap_experiment.cap_all_roads: the roads its second loop has left
    commands,   \* cap_experiment.cap_all_roads: local list
    busiest,    \* cap_experiment: (busiest_road, thruput) of find_busiest_road
    file        \* cap_experiment: the content of cap_edits.json, None while absent

httpVars == <<sent, last_status>>
linksVars == <<arg, execd>>
helperVars == <<ret, sim_edits, returned, srv_edits>>
cancelVars == <<cmp1, cmp2, pct, num_succeeded_last, results, results2>>
compareVars == <<faster, slower, out>>
clientVars == <<run1, run2, ts, raw, srv_signal>>

capVars == <<cap_all_roads, rounds, cap_pct, round, edits, baseline, experiment,
            max_per_road, todo, commands, busiest, file>>

vars == <<pc, exc, httpVars, linksVars, helperVars, cancelVars, compareVars,
          clientVars, capVars>>

None == <<>>
Some(v) == <<v>>

\* Python truthiness of an optional int: None and 0 are falsy.
truthy(x) == x # None /\ x # Some(0)

---------------------------------------------------------------------------
(* Bounds of the model. *)
MaxLen == 2      \* longest suffix appended to a URL head
MaxTrip == 1     \* trip ids are 1..MaxTrip
MaxDur == 2      \* trip durations are 0..MaxDur seconds
MaxRoad == 1     \* road ids are 1..MaxRoad
MaxCounts == 2   \* longest 'counts' list of /data/get-road-thruput
MaxRounds == 2   \* largest --rounds of cap_experiment

RECURSIVE SeqsUpTo(_, _)
SeqsUpTo(S, n) ==
    IF n = 0 THEN {<<>>}
    ELSE LET shorter == SeqsUpTo(S, n - 1)
         IN  shorter \cup {Append(s, x) : s \in shorter, x \in S}

---------------------------------------------------------------------------
(* HTTP *)
codes_ok == 200
StatusCodes == {200, 500}

\* What the scripts leave untouched while another script runs.
NoLinks == arg = <<>> /\ execd = <<>>
NoHelpers == ret = "exit" /\ sim_edits = None /\ returned = None /\ srv_edits = None
NoCancel ==
    /\ cmp1 = None /\ cmp2 = None /\ pct = None /\ num_succeeded_last = 0
    /\ results = None /\ results2 = None
NoCompare == faster = <<>> /\ slower = <<>> /\ out = <<>>
NoCap ==
    /\ cap_all_roads = TRUE /\ rounds = 0 /\ cap_pct = 0 /\ round = 0
    /\ edits = None /\ baseline = None /\ experiment = None
    /\ max_per_road = <<>> /\ todo = <<>> /\ commands = <<>> /\ busiest = None
    /\ file = None
NoClient == run1 = None /\ run2 = None /\ ts = None /\ raw = <<>> /\ srv_signal = None

\* A request goes out and the server answers with `status`.
Request(cmd, status) ==
    /\ sent' = Append(sent, cmd)
    /\ last_status' = Some(status)

Raise(e) == pc' = "raised" /\ exc' = e

---------------------------------------------------------------------------
(* clickable_links.py *)
Str_most == <<"h","t","t","p",":","/","/","m","o","s","t","/">>
Str_tail == <<"h","t","t","p",":","/","/","t","a","i","l","/">>
Str_ui == <<"h","t","t","p",":","/","/","u","i","/">>
Cmd_most == <<"m","o","s","t"," ">>
Cmd_tail == <<"t","a","i","l"," ","-","f"," ">>
Cmd_ui == <<"c","d"," ","~","/","a","b","s","t","r","e","e","t","/","g","a","m","e",";",
             " ","c","a","r","g","o"," ","r","u","n"," ">>

startswith(s, p) == Len(s) >= Len(p) /\ SubSeq(s, 1, Len(p)) = p
\* s[len(p):]
strip(s, p) == SubSeq(s, Len(p) + 1, Len(s))

urxvt(cmd) == [file |-> "urxvt", argv |-> <<"urxvt", "-e", "sh", "-c", cmd>>]
xdg_open(a) == [file |-> "xdg-open", argv |-> <<"xdg-open", a>>]

\* A variant of execvp that returns to the next statement, as os.system would.
execvp_returns(call, next) ==
    /\ execd' = Append(execd, call)
    /\ pc' = next
    /\ exc' = exc

\* os.execvp replaces the process image and never returns; when the program
\* cannot be started it raises OSError.  `next` is the statement after the call.
execvp(call, next) ==
    /\ execd' = Append(execd, call)
    /\ \E started \in BOOLEAN :
          IF started THEN pc' = "replaced" /\ exc' = exc
          ELSE Raise("OSError")

\* The heads of the arguments tried: the three prefixes, near misses, others.
Heads ==
    { Str_most, Str_tail, Str_ui,
      SubSeq(Str_most, 1, Len(Str_most) - 1),
      SubSeq(Str_tail, 1, Len(Str_tail) - 1),
      SubSeq(Str_ui, 1, Len(Str_ui) - 1),
      <<"h","t","t","p","s",":","/","/","m","o","s","t","/">>,
      <<"h","t","t","p",":","/","/">>,
      <<>> }
Tails == SeqsUpTo({"a", "/"}, MaxLen) \cup {Str_most, Str_tail, Str_ui}
Args == {h \o t : h \in Heads, t \in Tails}

InitLinks ==
    /\ pc = "links:if_most" /\ exc = "none" /\ sent = <<>> /\ last_status = None
    /\ arg \in Args /\ execd = <<>>
    /\ NoHelpers /\ NoCancel /\ NoCompare /\ NoClient /\ NoCap

LinksIfMost ==
    /\ pc = "links:if_most"
    /\ IF startswith(arg, Str_most)
       THEN execvp(urxvt(Cmd_most \o strip(arg, Str_most)), "links:if_tail")
       ELSE pc' = "links:if_tail" /\ UNCHANGED <<exc, execd>>
    /\ UNCHANGED <<arg, httpVars, helperVars, cancelVars, compareVars, clientVars,
                   capVars>>

LinksIfTail ==
    /\ pc = "links:if_tail"
    /\ IF startswith(arg, Str_tail)
       THEN execvp(urxvt(Cmd_tail \o strip(arg, Str_tail)), "done")
       ELSE IF startswith(arg, Str_ui)
       THEN execvp(urxvt(Cmd_ui \o strip(arg, Str_ui)), "done")
       ELSE execvp(xdg_open(arg), "done")
    /\ UNCHANGED <<arg, httpVars, helperVars, cancelVars, compareVars, clientVars,
                   capVars>>

NextLinks == LinksIfMost \/ LinksIfTail

SpecLinks == InitLinks /\ [][NextLinks]_vars

NoPrefix(a) ==
    ~startswith(a, Str_most) /\ ~startswith(a, Str_tail) /\ ~startswith(a, Str_ui)

\* C9: clickable_links execs exactly one program for any argument: urxvt with
\* 'most', 'tail -f' or 'cargo run' and the prefix stripped for the three
\* prefixes, and xdg-open if and only if the argument starts with none of them;
\* an http://most/ URL never reaches the if/elif/else that follows its test.
C9_ExactlyOneHandler ==
    /\ Len(execd) <= 1
    /\ pc # "done"
    /\ pc \in {"replaced", "raised"} =>
          /\ Len(execd) = 1
          /\ startswith(arg, Str_most) =>
                execd[1] = urxvt(Cmd_most \o strip(arg, Str_most))
          /\ startswith(arg, Str_tail) =>
                execd[1] = urxvt(Cmd_tail \o strip(arg, Str_tail))
          /\ startswith(arg, Str_ui) =>
                execd[1] = urxvt(Cmd_ui \o strip(arg, Str_ui))
          /\ execd[1].file = "xdg-open" <=> NoPrefix(arg)
          /\ NoPrefix(arg) => execd[1] = xdg_open(arg)

\* An http://most/ URL whose rest is itself an http://tail/ URL was dispatched.
C9_Witness ==
    /\ pc = "replaced"
    /\ arg = Str_most \o Str_tail
    /\ execd = <<urxvt(Cmd_most \o Str_tail)>>

---------------------------------------------------------------------------
(* headless/examples/abst_helpers.py *)
TripIds == 1 .. MaxTrip
Durations == 0 .. MaxDur
Roads == 1 .. MaxRoad

\* One element of the JSON list /data/get-finished-trips answers with; the
\* list holds each trip id at most once, so it is a map from the ids it holds.
TripRec == [mode : {None, Some("Drive")}, duration : Durations, capped : BOOLEAN]
RawTrips == UNION {[S -> TripRec] : S \in SUBSET TripIds}

\* The map edits: a list of road commands (road, cap) and the merge_zones flag.
Command(r, cap) == [road |-> r, cap |-> cap]
NoEdits == [commands |-> <<>>, merge_zones |-> TRUE]

Results(num_aborted, trip_times, capped_trips) ==
    [num_aborted |-> num_aborted, trip_times |-> trip_times,
     capped_trips |-> capped_trips]

\* A get/post that hands back whatever the server answered.
never_raises(status) == FALSE

\* get and post raise Exception(resp.text) unless the status is requests.codes.ok.
get_raises(status) == status # codes_ok
post_raises(status) == status # codes_ok

\* The loop of run_sim over raw_trips.
run_sim_results(raw_trips) ==
    Results(Cardinality({t \in DOMAIN raw_trips : raw_trips[t].mode = None}),
            [t \in {u \in DOMAIN raw_trips : raw_trips[u].mode # None}
                |-> raw_trips[t].duration],
            {t \in DOMAIN raw_trips : raw_trips[t].capped})

\* /sim/load with 'edits': the server loads the scenario with these map edits
\* (none when edits is null).
ServerLoad(e) == srv_edits' = Some(IF e = None THEN NoEdits ELSE e[1])

\* What run_sim never touches: the state of the other scripts and of compare.
HelperFrame == UNCHANGED <<linksVars, cancelVars, faster, slower, clientVars, capVars>>

RunSimLoad ==
    /\ pc = "run_sim:load"
    /\ \E status \in StatusCodes :
          /\ Request("/sim/load", status)
          /\ IF post_raises(status)
             THEN Raise("Exception") /\ UNCHANGED srv_edits
             ELSE pc' = "run_sim:goto" /\ exc' = exc /\ ServerLoad(sim_edits)
    /\ returned' = None /\ out' = <<>>
    /\ UNCHANGED <<ret, sim_edits>> /\ HelperFrame

RunSimGotoTime ==
    /\ pc = "run_sim:goto"
    /\ \E status \in StatusCodes :
          /\ Request("/sim/goto-time", status)
          /\ IF post_raises(status)
             THEN Raise("Exception")
             ELSE pc' = "run_sim:trips" /\ exc' = exc
    /\ out' = <<>>
    /\ UNCHANGED helperVars /\ HelperFrame

RunSimGetTrips ==
    /\ pc = "run_sim:trips"
    /\ \E status \in StatusCodes :
          /\ Request("/data/get-finished-trips", status)
          /\ IF get_raises(status)
             THEN Raise("Exception") /\ UNCHANGED returned
             ELSE /\ pc' = ret /\ exc' = exc
                  /\ \E raw_trips \in RawTrips :
                        returned' = Some(run_sim_results(raw_trips))
    /\ out' = <<>>
    /\ UNCHANGED <<ret, sim_edits, srv_edits>> /\ HelperFrame

\* run_sim called on its own, with edits=None or with some edits.
SomeEdits ==
    {None} \cup {Some([commands |-> c, merge_zones |-> m]) :
                    c \in {<<>>} \cup {<<Command(r, 20)>> : r \in Roads},
                    m \in BOOLEAN}

InitHelpers ==
    /\ pc = "run_sim:load" /\ exc = "none" /\ sent = <<>> /\ last_status = None
    /\ ret = "exit" /\ sim_edits \in SomeEdits /\ returned = None
    /\ srv_edits = None
    /\ NoLinks /\ NoCancel /\ NoCompare /\ NoClient /\ NoCap

Exit ==
    /\ pc = "exit"
    /\ pc' = "done"
    /\ UNCHANGED <<exc, httpVars, linksVars, helperVars, cancelVars, compareVars,
                   clientVars, capVars>>

NextHelpers == RunSimLoad \/ RunSimGotoTime \/ RunSimGetTrips \/ Exit

SpecHelpers == InitHelpers /\ [][NextHelpers]_vars

\* The latest response was not OK.
HttpFailed == last_status # None /\ last_status # Some(codes_ok)

\* C1: in abst_helpers.run_sim a non-OK answer to /sim/load, /sim/goto-time or
\* /data/get-finished-trips raises at once: the script is stopped by the
\* exception with the failing request as the last one sent and no Results
\* returned; run_sim returns a Results only after three OK answers.
C1_ErrorsPropagate ==
    /\ HttpFailed =>
          /\ pc = "raised" /\ exc = "Exception"
          /\ returned = None
    /\ pc = "raised" => HttpFailed
    /\ pc \in {"exit", "done"} =>
          /\ returned # None
          /\ sent = <<"/sim/load", "/sim/goto-time", "/data/get-finished-trips">>

\* /sim/goto-time answered with an error after /sim/load had succeeded.
C1_Witness ==
    /\ pc = "raised"
    /\ HttpFailed
    /\ sent = <<"/sim/load", "/sim/goto-time">>
    /\ srv_edits # None

---------------------------------------------------------------------------
(* statistics.mean and the lines compare prints *)
RECURSIVE sum(_)
sum(data) == IF data = <<>> THEN 0 ELSE Head(data) + sum(Tail(data))

\* An average is kept exact, as the pair sum / count; 0.0 is 0 / 1.
Average(num, den) == [num |-> num, den |-> den]
mean(data) == Average(sum(data), Len(data))

Line(what, n, average) == [what |-> what, n |-> n, avg |-> average]

\* The ids in S in increasing order: the order in which the model walks a dict.
RECURSIVE ordered(_)
ordered(S) ==
    IF S = {} THEN <<>>
    ELSE LET m == CHOOSE x \in S : \A y \in S : x <= y
         IN  <<m>> \o ordered(S \ {m})

---------------------------------------------------------------------------
(* headless/examples/cancel_experiment.py *)
range_start == 100
range_stop == 0
range_step == -10

\* The values tried for --cmp1 and --cmp2 (type=int, default None).
CmpArgs == {None, Some(0), Some(90), Some(95), Some(100)}

\* One element of the 'trips' list: (_, trip, mode, duration), at most one per trip.
CancelTripRec == [mode : {None, Some("Drive")}, duration : Durations]
CancelRawTrips == UNION {[S -> CancelTripRec] : S \in SUBSET TripIds}

cancel_Results(num_aborted, trip_times) ==
    [num_aborted |-> num_aborted, trip_times |-> trip_times]

\* The loop of cancel_experiment.run_sim over raw_trips.
cancel_run_sim_results(raw_trips) ==
    cancel_Results(Cardinality({t \in DOMAIN raw_trips : raw_trips[t].mode = None}),
                   [t \in {u \in DOMAIN raw_trips : raw_trips[u].mode # None}
                       |-> raw_trips[t].duration])

\* dict.get
dict_get(d, k) == IF k \in DOMAIN d THEN Some(d[k]) ELSE None

\* The loop of compare_results: the lists faster and slower after the trips in
\* `trips` (a list of ids of results2) have been walked.
RECURSIVE compare_results_loop(_, _, _)
compare_results_loop(trip_times1, trip_times2, trips) ==
    IF trips = <<>> THEN [faster |-> <<>>, slower |-> <<>>]
    ELSE LET trip == trips[Len(trips)]
             sofar == compare_results_loop(trip_times1, trip_times2,
                                           SubSeq(trips, 1, Len(trips) - 1))
             after_dt == trip_times2[trip]
             before_dt == dict_get(trip_times1, trip)
         IN  IF ~truthy(before_dt) THEN sofar
             ELSE IF before_dt[1] > after_dt
                  THEN [sofar EXCEPT !.faster = Append(@, before_dt[1] - after_dt)]
             ELSE IF after_dt > before_dt[1]
                  THEN [sofar EXCEPT !.slower = Append(@, after_dt - before_dt[1])]
             ELSE sofar

\* What the cancellation script never touches.
CancelFrame == UNCHANGED <<linksVars, helperVars, clientVars, capVars>>

InitCancel ==
    /\ pc = "cancel:validate" /\ exc = "none" /\ sent = <<>> /\ last_status = None
    /\ cmp1 \in CmpArgs /\ cmp2 \in CmpArgs
    /\ pct = None /\ num_succeeded_last = 0 /\ results = None /\ results2 = None
    /\ NoLinks /\ NoHelpers /\ NoCompare /\ NoClient /\ NoCap

\* if args.cmp1 and args.cmp2 and args.cmp1 > args.cmp2: sys.exit(...)
args_invalid(c1, c2) == truthy(c1) /\ truthy(c2) /\ c1[1] > c2[1]

CancelValidate ==
    /\ pc = "cancel:validate"
    /\ IF args_invalid(cmp1, cmp2)
       THEN Raise("SystemExit")
       ELSE pc' = "cancel:for" /\ exc' = exc
    /\ out' = <<>>
    /\ UNCHANGED <<httpVars, cancelVars, faster, slower>> /\ CancelFrame

\* for pct in range(100, 0, -10): the next value, None when the range is used up.
range_next(p) ==
    IF p = None THEN Some(range_start)
    ELSE IF p[1] + range_step > range_stop THEN Some(p[1] + range_step)
    ELSE None

CancelFor ==
    /\ pc = "cancel:for"
    /\ IF range_next(pct) = None
       THEN pc' = "done" /\ pct' = pct
       ELSE pc' = "cancel:load" /\ pct' = range_next(pct)
    /\ out' = <<>>
    /\ UNCHANGED <<exc, httpVars, cmp1, cmp2, num_succeeded_last, results, results2,
                   faster, slower>>
    /\ CancelFrame

\* requests.post / requests.get as cancel_experiment and python_client call
\* them: the status of the response is never looked at.
CancelLoad ==
    /\ pc = "cancel:load"
    /\ \E status \in StatusCodes : Request("/sim/load", status)
    /\ pc' = "cancel:goto"
    /\ out' = <<>>
    /\ UNCHANGED <<exc, cancelVars, faster, slower>> /\ CancelFrame

CancelGotoTime ==
    /\ pc = "cancel:goto"
    /\ \E status \in StatusCodes : Request("/sim/goto-time", status)
    /\ pc' = "cancel:trips"
    /\ out' = <<>>
    /\ UNCHANGED <<exc, cancelVars, faster, slower>> /\ CancelFrame

\* .json()['trips'] of the response: an OK response holds the list; the body of
\* any other response may hold one or not, and raises when it does not.
CancelGetTrips ==
    /\ pc = "cancel:trips"
    /\ \E status \in StatusCodes :
          /\ Request("/data/get-finished-trips", status)
          /\ \/ /\ status # codes_ok
                /\ Raise("JSONDecodeError")
                /\ UNCHANGED results
             \/ /\ pc' = "cancel:check" /\ exc' = exc
                /\ \E raw_trips \in CancelRawTrips :
                      results' = Some(cancel_run_sim_results(raw_trips))
    /\ out' = <<>>
    /\ UNCHANGED <<cmp1, cmp2, pct, num_succeeded_last, results2, faster, slower>>
    /\ CancelFrame

len_trip_times(r) == Cardinality(DOMAIN r[1].trip_times)

\* A test that also stops on a round with as many trips as the round before.
hit_gridlock_or_equal(succeeded, last) == succeeded <= last

\* if len(results.trip_times) < num_succeeded_last: ... break
hit_gridlock(succeeded, last) == succeeded < last

\* The body of the loop after run_sim, up to the comparison.
CancelCheck ==
    /\ pc = "cancel:check"
    /\ IF hit_gridlock(len_trip_times(results), num_succeeded_last)
       THEN /\ pc' = "done"
            /\ out' = <<[what |-> "likely hit gridlock"]>>
            /\ UNCHANGED <<num_succeeded_last, results2>>
       ELSE /\ num_succeeded_last' = len_trip_times(results)
            /\ results2' = IF cmp2 = pct THEN results ELSE results2
            /\ pc' = IF cmp1 = pct THEN "compare_results:loop" ELSE "cancel:for"
            /\ out' = <<>>
    /\ UNCHANGED <<exc, httpVars, cmp1, cmp2, pct, results, faster, slower>>
    /\ CancelFrame

\* compare_results(results, results2): the loop; results2.trip_times of None
\* raises AttributeError.
CompareResultsLoop ==
    /\ pc = "compare_results:loop"
    /\ IF results2 = None
       THEN Raise("AttributeError") /\ UNCHANGED <<faster, slower>>
       ELSE LET lists == compare_results_loop(results[1].trip_times,
                                              results2[1].trip_times,
                                              ordered(DOMAIN results2[1].trip_times))
            IN  /\ faster' = lists.faster /\ slower' = lists.slower
                /\ pc' = "compare_results:print" /\ exc' = exc
    /\ out' = <<>>
    /\ UNCHANGED <<httpVars, cancelVars>> /\ CancelFrame

\* The two prints of compare_results: statistics.mean raises StatisticsError on
\* an empty list, the first print before the second.
CompareResultsPrint ==
    /\ pc = "compare_results:print"
    /\ IF faster = <<>>
       THEN Raise("StatisticsError") /\ out' = <<>>
       ELSE IF slower = <<>>
       THEN /\ Raise("StatisticsError")
            /\ out' = <<Line("faster", Len(faster), mean(faster))>>
       ELSE /\ pc' = "cancel:for" /\ exc' = exc
            /\ out' = <<Line("faster", Len(faster), mean(faster)),
                        Line("slower", Len(slower), mean(slower))>>
    /\ faster' = <<>> /\ slower' = <<>>
    /\ UNCHANGED <<httpVars, cancelVars>> /\ CancelFrame

NextCancel ==
    \/ CancelValidate \/ CancelFor \/ CancelLoad \/ CancelGotoTime \/ CancelGetTrips
    \/ CancelCheck \/ CompareResultsLoop \/ CompareResultsPrint

SpecCancel == InitCancel /\ [][NextCancel]_vars

\* C2 (as claimed): in cancel_experiment and python_client a non-OK response to
\* any request stops the script with an error, so no later request is sent.
C2_ErrorsStopTheScript == HttpFailed => pc = "raised" /\ exc # "none"

\* C3 (as claimed): with --cmp1/--cmp2 that passed the validation, compare_results
\* is never entered with results2 still None.
C3_Results2Recorded ==
    pc = "compare_results:loop" => ~args_invalid(cmp1, cmp2) /\ results2 # None

\* The simulations started so far: one /sim/load each.
NumSims == Len(SelectSeq(sent, LAMBDA cmd : cmd = "/sim/load"))

\* pct is the value 100 - 10 * (k - 1) in the k-th simulation, k <= 10.
C4_Descending ==
    /\ pct = None => NumSims = 0
    /\ pct # None =>
          /\ pct[1] \in {100 - 10 * k : k \in 0 .. 9}
          /\ NumSims = (100 - pct[1]) \div 10 + (IF pc = "cancel:load" THEN 0 ELSE 1)
    /\ NumSims <= 10

C4_Step ==
    /\ C4_Descending /\ C4_Descending'
    \* the round with fewer succeeded trips ends the script: no simulation, no
    \* comparison, nothing recorded; any other round goes on
    /\ pc = "cancel:check" =>
          IF len_trip_times(results) < num_succeeded_last
          THEN /\ pc' = "done"
               /\ UNCHANGED <<sent, num_succeeded_last, results2, faster, slower>>
          ELSE /\ pc' \in {"cancel:for", "compare_results:loop"}
               /\ num_succeeded_last' = len_trip_times(results)
    /\ pc # "done"
    \* the succeeded counts of the rounds that went on never decrease
    /\ num_succeeded_last' >= num_succeeded_last
    /\ pc # "cancel:check" => num_succeeded_last' = num_succeeded_last

\* C4: cancel_experiment.main simulates with pct = 100, 90, ..., 10 in this
\* order, at most 10 times; the first round in which fewer trips succeeded than
\* in the round before ends the script at once (no further simulation, no
\* comparison), and over the other rounds the succeeded count never decreases.
C4_StopsAtFirstDecrease == [][C4_Step]_vars

\* The third round (pct = 80) had no trip succeed after one in the second.
C4_Witness ==
    /\ pc = "done" /\ pct = Some(80)
    /\ num_succeeded_last = 1 /\ len_trip_times(results) = 0
    /\ out = <<[what |-> "likely hit gridlock"]>>

---------------------------------------------------------------------------
(* headless/examples/python_client.py *)

\* A stage of a traffic signal: stage_type is {'Fixed': seconds} or another kind.
Fixed(d) == [stage_type |-> "Fixed", seconds |-> d]
Stages == {Fixed(1), Fixed(2), [stage_type |-> "Variable"]}
\* The signals /traffic-signals/get may answer with: one or two stages.
Signals == {<<a>> : a \in Stages} \cup {<<a, b>> : a \in Stages, b \in Stages}

\* The directions of travel through the intersection: a movement and a crosswalk.
Road(id, dir) == [id |-> id, dir |-> dir]
Movement == [crosswalk |-> FALSE, from |-> Road(1, "Fwd"), to |-> Road(2, "Back")]
Crosswalk == [crosswalk |-> TRUE, from |-> Road(1, "Fwd"), to |-> Road(1, "Back")]
Directions == {Movement, Crosswalk}

\* 'Road #{} ({})'.format(id, dir)
stringify_road(directed_road) ==
    <<"Road #", directed_road.id, " (", directed_road.dir, ")">>

stringify_direction(direxn) ==
    IF direxn.crosswalk THEN None
    ELSE Some(stringify_road(direxn.from) \o <<" -> ">> \o stringify_road(direxn.to))

\* The JSON bodies of run_experiment's three data requests.  A trip's duration
\* is null when the trip was cancelled.
ClientRawTrips ==
    UNION {[S -> {None} \cup {Some(d) : d \in Durations}] : S \in SUBSET TripIds}
\* per_direction: (direction, list of delays) pairs, each direction at most once.
RawDelays ==
    UNION {{f \in [S -> {<<>>, <<1, 2>>}] : Crosswalk \in S => f[Crosswalk] # <<>>}
              : S \in SUBSET Directions}
\* per_direction: (direction, count) pairs.
RawThruput == UNION {[S -> {3}] : S \in SUBSET Directions}

\* '{:.1f}'.format(sum(v) / len(v)): the average in tenths (exact for the lists
\* of RawDelays).
format_1f(v) == (10 * sum(v)) \div Len(v)

\* The three loops of run_experiment.
run_experiment_result(raw_trips, raw_delays, raw_thruput) ==
    LET keyed(body) == {k \in DOMAIN body : stringify_direction(k) # None}
        key(S, name) == CHOOSE k \in S : stringify_direction(k)[1] = name
        delay_keys == {k \in keyed(raw_delays) : raw_delays[k] # <<>>}
    IN  [trips |-> [t \in {u \in DOMAIN raw_trips : raw_trips[u] # None}
                       |-> raw_trips[t][1]],
         delays |-> [name \in {stringify_direction(k)[1] : k \in delay_keys}
                       |-> format_1f(raw_delays[key(delay_keys, name)])],
         thruput |-> [name \in {stringify_direction(k)[1] : k \in keyed(raw_thruput)}
                       |-> raw_thruput[key(keyed(raw_thruput), name)]]]

\* The statements of main in program order, with the /traffic-signals/set
\* before the second /sim/reset.
main_set_before_reset ==
    <<"client:get_time", "client:reset", "client:run1", "client:agents",
      "client:get_signal", "client:set", "client:reset2", "client:run2",
      "client:compare", "done">>

\* The statements of main in program order.
main_statements ==
    <<"client:get_time", "client:reset", "client:run1", "client:agents",
      "client:get_signal", "client:reset2", "client:set", "client:run2",
      "client:compare", "done">>

\* The statement of main that follows stmt.
after(stmt) ==
    LET i == CHOOSE j \in 1 .. Len(main_statements) - 1 : main_statements[j] = stmt
    IN  main_statements[i + 1]

ClientFrame == UNCHANGED <<linksVars, cancelVars, faster, slower, sim_edits,
                           returned, srv_edits, capVars>>

\* The server may hold a signal edit from an earlier session.
InitClient ==
    /\ pc = "client:get_time" /\ exc = "none" /\ sent = <<>> /\ last_status = None
    /\ run1 = None /\ run2 = None /\ ts = None /\ raw = <<>>
    /\ srv_signal \in {None, Some(<<Fixed(1), Fixed(1)>>)}
    /\ NoLinks /\ NoHelpers /\ NoCancel /\ NoCompare /\ NoCap

\* .json() of a response: an OK response holds the JSON asked for; the body of
\* any other response may hold it or not, and raises when it does not.
JsonFails(status) == status # codes_ok

ClientGetTime ==
    /\ pc = "client:get_time"
    /\ \E status \in StatusCodes : Request("/sim/get-time", status)
    /\ pc' = after("client:get_time")
    /\ out' = <<[what |-> "time"]>>
    /\ UNCHANGED <<exc, ret, clientVars>> /\ ClientFrame

\* /sim/reset: an OK answer means the simulation was reset and the edits cleared.
ClientReset ==
    /\ pc \in {"client:reset", "client:reset2"}
    /\ \E status \in StatusCodes :
          /\ Request("/sim/reset", status)
          /\ srv_signal' = IF status = codes_ok THEN None ELSE srv_signal
    /\ pc' = after(pc)
    /\ out' = <<[what |-> "reset"]>>
    /\ UNCHANGED <<exc, ret, run1, run2, ts, raw>> /\ ClientFrame

\* trips, delays, thruput = run_experiment()
ClientCallRunExperiment ==
    /\ pc \in {"client:run1", "client:run2"}
    /\ pc' = "run_experiment:goto"
    /\ ret' = pc
    /\ out' = <<[what |-> IF pc = "client:run1" THEN "Simulating before any edits"
                          ELSE "Simulating after the edits"]>>
    /\ UNCHANGED <<exc, httpVars, clientVars>> /\ ClientFrame

RunExperimentGotoTime ==
    /\ pc = "run_experiment:goto"
    /\ \E status \in StatusCodes : Request("/sim/goto-time", status)
    /\ pc' = "run_experiment:trips"
    /\ out' = <<[what |-> "goto-time"]>>
    /\ UNCHANGED <<exc, ret, clientVars>> /\ ClientFrame

\* raw_trips = requests.get(api + '/data/get-finished-trips').json()
RunExperimentTrips ==
    /\ pc = "run_experiment:trips"
    /\ \E status \in StatusCodes :
          /\ Request("/data/get-finished-trips", status)
          /\ \/ JsonFails(status) /\ Raise("JSONDecodeError") /\ raw' = raw
             \/ /\ \E raw_trips \in ClientRawTrips : raw' = <<raw_trips>>
                /\ pc' = "run_experiment:delays" /\ exc' = exc
    /\ out' = <<>>
    /\ UNCHANGED <<ret, run1, run2, ts, srv_signal>> /\ ClientFrame

\* raw_delays = requests.get(api + '/traffic-signals/get-delays', ...).json()
RunExperimentDelays ==
    /\ pc = "run_experiment:delays"
    /\ \E status \in StatusCodes :
          /\ Request("/traffic-signals/get-delays", status)
          /\ \/ JsonFails(status) /\ Raise("JSONDecodeError") /\ raw' = raw
             \/ /\ \E raw_delays \in RawDelays : raw' = Append(raw, raw_delays)
                /\ pc' = "run_experiment:thruput" /\ exc' = exc
    /\ out' = <<>>
    /\ UNCHANGED <<ret, run1, run2, ts, srv_signal>> /\ ClientFrame

\* raw_thruput = requests.get(...).json(), the three loops and the return.
RunExperimentThruput ==
    /\ pc = "run_experiment:thruput"
    /\ \E status \in StatusCodes :
          /\ Request("/traffic-signals/get-cumulative-thruput", status)
          /\ \/ /\ JsonFails(status) /\ Raise("JSONDecodeError")
                /\ UNCHANGED <<raw, run1, run2>>
             \/ /\ \E raw_thruput \in RawThruput :
                      LET r == Some(run_experiment_result(raw[1], raw[2], raw_thruput))
                      IN  IF ret = "client:run1"
                          THEN run1' = r /\ run2' = run2
                          ELSE run2' = r /\ run1' = run1
                /\ raw' = <<>>
                /\ pc' = after(ret) /\ exc' = exc
    /\ out' = <<>>
    /\ UNCHANGED <<ret, ts, srv_signal>> /\ ClientFrame

\* The agents of /data/get-agent-positions: pedestrians have no vehicle_type.
Agent(vehicle_type, lon) ==
    [vehicle_type |-> vehicle_type, pos |-> [longitude |-> lon, latitude |-> 0]]
AgentLists == SeqsUpTo({Agent(v, lon) : v \in {None, Some("Car")}, lon \in {1, 3}}, 2)

\* The average position of the pedestrians; no pedestrian is a division by zero.
ClientAgents ==
    /\ pc = "client:agents"
    /\ \E status \in StatusCodes :
          /\ Request("/data/get-agent-positions", status)
          /\ \/ JsonFails(status) /\ Raise("JSONDecodeError") /\ out' = <<>>
             \/ \E all \in AgentLists :
                   LET agents == SelectSeq(all, LAMBDA x : x.vehicle_type = None)
                       lons == [i \in 1 .. Len(agents) |-> agents[i].pos.longitude]
                       lats == [i \in 1 .. Len(agents) |-> agents[i].pos.latitude]
                   IN  IF Len(agents) = 0
                       THEN Raise("ZeroDivisionError") /\ out' = <<>>
                       ELSE /\ pc' = after("client:agents") /\ exc' = exc
                            /\ out' = <<[what |-> "average position",
                                         lon |-> mean(lons), lat |-> mean(lats)]>>
    /\ UNCHANGED <<ret, clientVars>> /\ ClientFrame

\* ts = .../traffic-signals/get ...; ts['stages'][1]['stage_type']['Fixed'] *= 2
ClientGetSignal ==
    /\ pc = "client:get_signal"
    /\ \E status \in StatusCodes :
          /\ Request("/traffic-signals/get", status)
          /\ \/ JsonFails(status) /\ Raise("JSONDecodeError") /\ ts' = ts
             \/ \E stages \in Signals :
                   IF Len(stages) < 2
                   THEN Raise("IndexError") /\ ts' = Some(stages)
                   ELSE IF stages[2].stage_type # "Fixed"
                   THEN Raise("KeyError") /\ ts' = Some(stages)
                   ELSE /\ ts' = Some([stages EXCEPT ![2].seconds = @ * 2])
                        /\ pc' = after("client:get_signal") /\ exc' = exc
    /\ out' = <<[what |-> "Modify a traffic signal"]>>
    /\ UNCHANGED <<ret, run1, run2, raw, srv_signal>> /\ ClientFrame

\* /traffic-signals/set: an OK answer means the server now runs the posted signal.
ClientSet ==
    /\ pc = "client:set"
    /\ \E status \in StatusCodes :
          /\ Request("/traffic-signals/set", status)
          /\ srv_signal' = IF status = codes_ok THEN ts ELSE srv_signal
    /\ pc' = after("client:set")
    /\ out' = <<[what |-> "set"]>>
    /\ UNCHANGED <<exc, ret, run1, run2, ts, raw>> /\ ClientFrame

\* The prints that compare the two runs; the table reads delays2, thruput1 and
\* thruput2 under every key of delays1.
ClientCompare ==
    /\ pc = "client:compare"
    /\ LET a == run1[1]
           b == run2[1]
       IN  /\ IF \A k \in DOMAIN a.delays :
                    /\ k \in DOMAIN b.delays
                    /\ k \in DOMAIN a.thruput /\ k \in DOMAIN b.thruput
              THEN pc' = after("client:compare") /\ exc' = exc
              ELSE Raise("KeyError")
           /\ out' = <<[what |-> "more trips finished",
                        n |-> Cardinality(DOMAIN b.trips) - Cardinality(DOMAIN a.trips)],
                       [what |-> "seconds faster",
                        n |-> sum([i \in 1 .. Cardinality(DOMAIN a.trips) |->
                                     a.trips[ordered(DOMAIN a.trips)[i]]])
                            - sum([i \in 1 .. Cardinality(DOMAIN b.trips) |->
                                     b.trips[ordered(DOMAIN b.trips)[i]]])]>>
    /\ UNCHANGED <<httpVars, ret, clientVars>> /\ ClientFrame

NextClient ==
    \/ ClientGetTime \/ ClientReset \/ ClientCallRunExperiment
    \/ RunExperimentGotoTime \/ RunExperimentTrips \/ RunExperimentDelays
    \/ RunExperimentThruput \/ ClientAgents
    \/ ClientGetSignal \/ ClientSet \/ ClientCompare

SpecClient == InitClient /\ [][NextClient]_vars

\* The places in sent of the requests for cmd.
Places(cmd) == {i \in 1 .. Len(sent) : sent[i] = cmd}

\* C5: in python_client.main the /traffic-signals/set is sent once, after every
\* /sim/reset and after the whole baseline run_experiment, and before the
\* /sim/goto-time of the second run_experiment; the second run never starts
\* without it.  When the set was answered OK the modified signal is the one
\* the server runs as the second experiment starts.
C5_EditInEffectForSecondRun ==
    /\ Cardinality(Places("/traffic-signals/set")) <= 1
    /\ Cardinality(Places("/sim/goto-time")) <= 2
    /\ \A i \in Places("/traffic-signals/set") :
          /\ \A j \in Places("/sim/reset") : j < i
          /\ Cardinality({j \in Places("/sim/goto-time") : j < i}) = 1
          /\ \E j \in Places("/traffic-signals/get-cumulative-thruput") : j < i
          /\ run1 # None
    /\ Cardinality(Places("/sim/goto-time")) = 2 =>
          \E i \in Places("/traffic-signals/set") :
              Cardinality({j \in Places("/sim/goto-time") : j > i}) = 1
    /\ pc = "run_experiment:goto" /\ ret = "client:run2" =>
          /\ Places("/traffic-signals/set") # {}
          /\ ~HttpFailed => srv_signal = ts

\* The second experiment ran to its end with the doubled signal still in effect.
C5_Witness ==
    /\ pc = "client:compare"
    /\ run2 # None
    /\ ts = Some(<<Fixed(1), Fixed(4)>>)
    /\ srv_signal = ts

---------------------------------------------------------------------------
(* Results.compare and avg of abst_helpers.py *)

\* The loop of Results.compare: the lists faster and slower after the trips in
\* `trips` (a list of ids of results2) have been walked.
RECURSIVE compare_loop(_, _, _)
compare_loop(self_trip_times, trip_times2, trips) ==
    IF trips = <<>> THEN [faster |-> <<>>, slower |-> <<>>]
    ELSE LET trip == trips[Len(trips)]
             sofar == compare_loop(self_trip_times, trip_times2,
                                   SubSeq(trips, 1, Len(trips) - 1))
             after_dt == trip_times2[trip]
             before_dt == dict_get(self_trip_times, trip)
         IN  IF ~truthy(before_dt) THEN sofar
             ELSE IF before_dt[1] > after_dt
                  THEN [sofar EXCEPT !.faster = Append(@, before_dt[1] - after_dt)]
             ELSE IF after_dt > before_dt[1]
                  THEN [sofar EXCEPT !.slower = Append(@, after_dt - before_dt[1])]
             ELSE sofar

avg(data) == IF data # <<>> THEN mean(data) ELSE Average(0, 1)

---------------------------------------------------------------------------
(* headless/examples/cap_experiment.py *)
min_cap == 10

\* An element of the 'counts' list of /data/get-road-thruput: (r, agent, hr, count).
ThruputEntries ==
    [r : Roads, agent : {"Car", "Bike"}, hr : {7, 8}, count : {0, 20, 40}]
ThruputLists == SeqsUpTo(ThruputEntries, MaxCounts)

\* int((args.cap_pct / 100.0) * count); exact for the percentages and counts tried.
cap_of(percent, count) == (percent * count) \div 100

\* The first loop of cap_all_roads: max_per_road, with its keys in the order
\* in which they were inserted.
RECURSIVE max_per_road_loop(_)
max_per_road_loop(thruput) ==
    IF thruput = <<>> THEN [keys |-> <<>>, best |-> <<>>]
    ELSE LET e == thruput[Len(thruput)]
             sofar == max_per_road_loop(SubSeq(thruput, 1, Len(thruput) - 1))
             known == {sofar.keys[i] : i \in 1 .. Len(sofar.keys)}
         IN  IF e.agent # "Car" THEN sofar
             ELSE IF e.r \notin known
                  THEN [keys |-> Append(sofar.keys, e.r),
                        best |-> [r \in known \cup {e.r} |->
                                    IF r = e.r THEN e.count ELSE sofar.best[r]]]
             ELSE IF e.count > sofar.best[e.r]
                  THEN [sofar EXCEPT !.best[e.r] = e.count]
             ELSE sofar

\* The loop of find_busiest_road: (max_key, max_value).
RECURSIVE find_busiest_road_loop(_)
find_busiest_road_loop(thruput) ==
    IF thruput = <<>> THEN [max_key |-> None, max_value |-> 0]
    ELSE LET e == thruput[Len(thruput)]
             sofar == find_busiest_road_loop(SubSeq(thruput, 1, Len(thruput) - 1))
         IN  IF e.agent = "Car" /\ e.count > sofar.max_value
             THEN [max_key |-> Some(<<e.r, e.hr>>), max_value |-> e.count]
             ELSE sofar

CapFrame == UNCHANGED <<linksVars, cancelVars, clientVars>>

InitCap ==
    /\ pc = "cap:baseline" /\ exc = "none" /\ sent = <<>> /\ last_status = None
    /\ cap_all_roads \in BOOLEAN /\ rounds \in 0 .. MaxRounds /\ cap_pct \in {50, 100}
    /\ round = 0 /\ edits = None /\ baseline = None /\ experiment = None
    /\ max_per_road = <<>> /\ todo = <<>> /\ commands = <<>> /\ busiest = None
    /\ file = None
    /\ NoLinks /\ NoHelpers /\ NoCancel /\ NoCompare /\ NoClient

\* baseline = abst_helpers.run_sim(args): the call.
CapBaseline ==
    /\ pc = "cap:baseline"
    /\ pc' = "run_sim:load" /\ ret' = "cap:get_edits" /\ sim_edits' = None
    /\ out' = <<[what |-> "Simulating"]>>
    /\ UNCHANGED <<exc, httpVars, returned, srv_edits, faster, slower, capVars>>
    /\ CapFrame

\* /map/get-edits answers with the edits the server has in effect.
ServerEdits == srv_edits[1]

\* baseline = <the Results returned>; edits = get(args, '/map/get-edits').json()
CapGetEdits ==
    /\ pc = "cap:get_edits"
    /\ baseline' = returned
    /\ \E status \in StatusCodes :
          /\ Request("/map/get-edits", status)
          /\ IF get_raises(status)
             THEN Raise("Exception") /\ edits' = edits
             ELSE pc' = "cap:for" /\ exc' = exc /\ edits' = Some(ServerEdits)
    /\ out' = <<>>
    /\ UNCHANGED <<helperVars, faster, slower, cap_all_roads, rounds, cap_pct, round,
                   experiment, max_per_road, todo, commands, busiest, file>>
    /\ CapFrame

\* for _ in range(args.rounds): ... experiment = abst_helpers.run_sim(args,
\* edits=edits): the call.
CapFor ==
    /\ pc = "cap:for"
    /\ IF round < rounds
       THEN /\ round' = round + 1
            /\ out' = <<[what |-> "roads have a cap", n |-> Len(edits[1].commands)]>>
            /\ pc' = "run_sim:load" /\ ret' = "compare:loop" /\ sim_edits' = edits
       ELSE /\ pc' = "cap:write" /\ out' = <<>>
            /\ UNCHANGED <<round, ret, sim_edits>>
    /\ UNCHANGED <<exc, httpVars, returned, srv_edits, faster, slower, cap_all_roads,
                   rounds, cap_pct, edits, baseline, experiment, max_per_road, todo,
                   commands, busiest, file>>
    /\ CapFrame

\* experiment = <the Results returned>; baseline.compare(experiment): the loop.
CompareLoop ==
    /\ pc = "compare:loop"
    /\ experiment' = returned
    /\ LET lists == compare_loop(baseline[1].trip_times, returned[1].trip_times,
                                 ordered(DOMAIN returned[1].trip_times))
       IN  faster' = lists.faster /\ slower' = lists.slower
    /\ pc' = "compare:print"
    /\ out' = <<>>
    /\ UNCHANGED <<exc, httpVars, helperVars, cap_all_roads, rounds, cap_pct, round,
                   edits, baseline, max_per_road, todo, commands, busiest, file>>
    /\ CapFrame

\* The three prints of Results.compare.
ComparePrint ==
    /\ pc = "compare:print"
    /\ out' = <<Line("faster", Len(faster), avg(faster)),
                Line("slower", Len(slower), avg(slower)),
                [what |-> "aborted", before |-> baseline[1].num_aborted,
                 after |-> experiment[1].num_aborted]>>
    /\ faster' = <<>> /\ slower' = <<>>
    /\ pc' = "cap:capped"
    /\ UNCHANGED <<exc, httpVars, helperVars, capVars>>
    /\ CapFrame

\* print('{:,} trips changed due to the caps'...); if args.cap_all_roads: ... else: ...
CapCapped ==
    /\ pc = "cap:capped"
    /\ out' = <<[what |-> "trips changed due to the caps",
                 n |-> Cardinality(experiment[1].capped_trips)]>>
    /\ pc' = IF cap_all_roads THEN "cap_all_roads:thruput" ELSE "find_busiest_road"
    /\ UNCHANGED <<exc, httpVars, helperVars, faster, slower, capVars>>
    /\ CapFrame

\* cap_all_roads: the request and the first loop.
CapAllRoadsThruput ==
    /\ pc = "cap_all_roads:thruput"
    /\ \E status \in StatusCodes :
          /\ Request("/data/get-road-thruput", status)
          /\ IF get_raises(status)
             THEN Raise("Exception") /\ UNCHANGED <<max_per_road, todo>>
             ELSE /\ pc' = "cap_all_roads:for" /\ exc' = exc
                  /\ \E thruput \in ThruputLists :
                        /\ max_per_road' = max_per_road_loop(thruput).best
                        /\ todo' = max_per_road_loop(thruput).keys
    /\ commands' = <<>>
    /\ out' = <<>>
    /\ UNCHANGED <<helperVars, faster, slower, cap_all_roads, rounds, cap_pct, round,
                   edits, baseline, experiment, busiest, file>>
    /\ CapFrame

\* cap_all_roads: one turn of the second loop, or the return into
\* edits['commands'] with edits['merge_zones'] = False.
CapAllRoadsFor ==
    /\ pc = "cap_all_roads:for"
    /\ IF todo = <<>>
       THEN /\ edits' = Some([commands |-> commands, merge_zones |-> FALSE])
            /\ pc' = "cap:for"
            /\ UNCHANGED <<exc, httpVars, todo, commands>>
       ELSE LET r == Head(todo)
                cap == cap_of(cap_pct, max_per_road[r])
            IN  /\ todo' = Tail(todo)
                /\ edits' = edits
                /\ IF cap > min_cap
                   THEN \E status \in StatusCodes :
                           /\ Request("/map/get-edit-road-command", status)
                           /\ IF get_raises(status)
                              THEN Raise("Exception") /\ commands' = commands
                              ELSE /\ commands' = Append(commands, Command(r, cap))
                                   /\ UNCHANGED <<pc, exc>>
                   ELSE UNCHANGED <<pc, exc, httpVars, commands>>
    /\ out' = <<>>
    /\ UNCHANGED <<helperVars, faster, slower, cap_all_roads, rounds, cap_pct, round,
                   baseline, experiment, max_per_road, busiest, file>>
    /\ CapFrame

\* busiest_road, thruput = find_busiest_road(args); max_key[0] of None raises.
FindBusiestRoad ==
    /\ pc = "find_busiest_road"
    /\ \E status \in StatusCodes :
          /\ Request("/data/get-road-thruput", status)
          /\ IF get_raises(status)
             THEN Raise("Exception") /\ busiest' = busiest /\ out' = <<>>
             ELSE \E thruput \in ThruputLists :
                     LET found == find_busiest_road_loop(thruput)
                     IN  IF found.max_key = None
                         THEN Raise("TypeError") /\ busiest' = busiest /\ out' = <<>>
                         ELSE /\ busiest' = Some(<<found.max_key[1][1], found.max_value>>)
                              /\ out' = <<[what |-> "Busiest road",
                                           road |-> found.max_key[1][1],
                                           cars |-> found.max_value,
                                           hour |-> found.max_key[1][2]]>>
                              /\ pc' = "cap:busiest_cmd" /\ exc' = exc
    /\ UNCHANGED <<helperVars, faster, slower, cap_all_roads, rounds, cap_pct, round,
                   edits, baseline, experiment, max_per_road, todo, commands, file>>
    /\ CapFrame

\* cmd = get(args, '/map/get-edit-road-command', ...).json(); its cap is set;
\* edits['commands'].append(cmd)
CapBusiestCmd ==
    /\ pc = "cap:busiest_cmd"
    /\ \E status \in StatusCodes :
          /\ Request("/map/get-edit-road-command", status)
          /\ IF get_raises(status)
             THEN Raise("Exception") /\ edits' = edits
             ELSE /\ edits' = Some([edits[1] EXCEPT !.commands =
                        Append(@, Command(busiest[1][1], cap_of(cap_pct, busiest[1][2])))])
                  /\ pc' = "cap:for" /\ exc' = exc
    /\ out' = <<>>
    /\ UNCHANGED <<helperVars, faster, slower, cap_all_roads, rounds, cap_pct, round,
                   baseline, experiment, max_per_road, todo, commands, busiest, file>>
    /\ CapFrame

\* f = open('cap_edits.json', 'w'); f.write(get(args, '/map/get-edits').text)
\* The file is created empty before the request goes out.
CapWrite ==
    /\ pc = "cap:write"
    /\ \E status \in StatusCodes :
          /\ Request("/map/get-edits", status)
          /\ IF get_raises(status)
             THEN Raise("Exception") /\ file' = Some(<<>>)
             ELSE pc' = "done" /\ exc' = exc /\ file' = Some(<<ServerEdits>>)
    /\ out' = <<>>
    /\ UNCHANGED <<helperVars, faster, slower, cap_all_roads, rounds, cap_pct, round,
                   edits, baseline, experiment, max_per_road, todo, commands, busiest>>
    /\ CapFrame

NextCap ==
    \/ RunSimLoad \/ RunSimGotoTime \/ RunSimGetTrips
    \/ CapBaseline \/ CapGetEdits \/ CapFor \/ CompareLoop \/ ComparePrint
    \/ CapCapped \/ CapAllRoadsThruput \/ CapAllRoadsFor \/ FindBusiestRoad
    \/ CapBusiestCmd \/ CapWrite

SpecCap == InitCap /\ [][NextCap]_vars

\* C6 (as claimed): the edits cap_experiment.main writes to cap_edits.json are
\* the edits computed in the last round of its loop, in both modes.
C6_FinalEditsWritten ==
    pc = "done" /\ round >= 1 => file # None /\ file[1][1].commands = edits[1].commands

\* The amounts a comparison of baseline b with experiment e has to record for
\* the trips in S, in the order the trips are walked.
Amounts(S, b, e) ==
    [i \in 1 .. Cardinality(S) |->
        LET t == ordered(S)[i]
        IN  IF b[t] > e[t] THEN b[t] - e[t] ELSE e[t] - b[t]]
InBoth(b, e) == DOMAIN b \cap DOMAIN e
Compared(b, e) ==
    /\ faster = Amounts({t \in InBoth(b, e) : b[t] > e[t]}, b, e)
    /\ slower = Amounts({t \in InBoth(b, e) : b[t] < e[t]}, b, e)

\* C7 (as claimed): the comparison skips a trip of the experiment only when the
\* baseline has no time for it; a trip in both maps is once in faster when the
\* baseline took longer, once in slower when it took less, in neither when
\* equal, with the absolute difference as the amount.  Stated of
\* Results.compare and of compare_results, as their loops end.
C7_EveryCommonTripCompared ==
    /\ pc = "compare:print" =>
          Compared(baseline[1].trip_times, experiment[1].trip_times)
    /\ pc = "compare_results:print" =>
          Compared(results[1].trip_times, results2[1].trip_times)

\* C8 (as claimed): a comparison never fails for lack of data; an empty list
\* is reported with the count 0 and the average 0.0, by Results.compare and by
\* compare_results.
C8_EmptyListsPrinted ==
    /\ exc # "StatisticsError"
    /\ \A i \in 1 .. Len(out) :
          out[i].what \in {"faster", "slower"} /\ out[i].n = 0
              => out[i].avg = Average(0, 1)

=============================================================================
